---- MODULE Spec2Model ----
(***************************************************************************)
(* Greedy list scheduling of a hybrid flow shop (flowshop.py): jobs are    *)
(* ordered by a dispatch rule (SPT / LPT) and walked stage by stage; at    *)
(* each stage the eligible machine that is free first is chosen and the    *)
(* sequence-dependent setup is charged on it.                              *)
(***************************************************************************)
EXTENDS Integers, Sequences, FiniteSets, TLC

(* ------------------------------ bounds --------------------------------- *)
NumOps == 3
NumMachines == 2
MaxDemand == 2
MaxDur == 2
MaxSetup == 2

Types == {"A", "B"}
TypeOrder == <<"A", "B">>
OperationIds == 1..NumOps
MachineIds == 1..NumMachines
Rules == {"SPT", "LPT"}
BadRules == {"FIFO"}

None == 0
NoRun == 0 - 1

VARIABLES
    demand,           \* job type -> count
    allowed_machines, \* operation id -> machine id -> set of job types
    processing_time,  \* operation id -> machine id -> list of durations
    setup_time,       \* previous job type -> next job type -> duration
    rule,             \* the rule argument of schedule_all_jobs
    jobs,             \* the job catalog, a sequence of Job (id, type)
    sorted_jobs,      \* dispatch order, a sequence of job ids
    machine_jobs,     \* Machine.jobs: operation id -> machine id -> job ids
    cumulative_time,  \* Machine.cumulative_time
    operation_times,  \* Job.operation_times: job id -> (operation id -> record)
    pc,               \* "start", "loop", "done", "error"
    job_idx,          \* position of the outer loop in sorted_jobs
    op_idx,           \* position of the inner loop in operations_order
    prev_end_time,    \* the local prev_end_time of schedule_all_jobs
    error,            \* the exception that ended the run, or "none"
    prior_makespan    \* makespan of the run made before this one, or NoRun

cfgvars == <<demand, allowed_machines, processing_time, setup_time, rule, jobs>>
vars == <<demand, allowed_machines, processing_time, setup_time, rule, jobs,
          sorted_jobs, machine_jobs, cumulative_time, operation_times,
          pc, job_idx, op_idx, prev_end_time, error, prior_makespan>>

Max(a, b) == IF a >= b THEN a ELSE b

(* ------------------------- construction -------------------------------- *)
\* Variant with a slip: job_id is not advanced within a type.
RECURSIVE create_job_list_SameId(_, _, _)
create_job_list_SameId(d, ti, acc) ==
    IF ti > Len(TypeOrder) THEN acc
    ELSE create_job_list_SameId(d, ti + 1,
            acc \o [k \in 1..d[TypeOrder[ti]] |->
                      [id |-> Len(acc) + 1, type |-> TypeOrder[ti]]])

\* create_job_list: ids from 1, all jobs of one type before the next type.
RECURSIVE create_job_list(_, _, _)
create_job_list(d, ti, acc) ==
    IF ti > Len(TypeOrder) THEN acc
    ELSE create_job_list(d, ti + 1,
            acc \o [k \in 1..d[TypeOrder[ti]] |->
                      [id |-> Len(acc) + k, type |-> TypeOrder[ti]]])

JobIds == 1..Len(jobs)
JobType(j) == jobs[j].type

\* Operation.machines: the machines of a stage in declaration order.
OperationMachines(op) == [i \in 1..NumMachines |-> i]

\* create_operations keeps the declaration order of the stages.
operations == [i \in 1..NumOps |-> i]

(* ------------------------- dispatch rule ------------------------------- *)
SetMin(S) == CHOOSE x \in S : \A y \in S : x <= y

\* The duration one machine's time list gives a job type while the key is
\* computed.
KeyTime(machine_times, job_type) ==
    IF Len(machine_times) = 1 THEN machine_times[1]
    ELSE IF job_type = "A" THEN machine_times[1] ELSE machine_times[2]

\* min over machines.values() of one stage of the processing_time table
StageMinTime(job_type, machines) ==
    SetMin({KeyTime(machines[m], job_type) : m \in DOMAIN machines})

RECURSIVE SumStages(_, _, _)
SumStages(job_type, pt, ops) ==
    IF ops = {} THEN 0
    ELSE LET op == CHOOSE o \in ops : TRUE
         IN  StageMinTime(job_type, pt[op]) + SumStages(job_type, pt, ops \ {op})

calculate_total_processing_time(job_type, pt) ==
    SumStages(job_type, pt, DOMAIN pt)

\* Variant with a slip: an element goes before the elements of equal key.
InsertByKey_Unstable(s, x, key) ==
    LET n == Cardinality({i \in 1..Len(s) : key[s[i]] < key[x]})
    IN  SubSeq(s, 1, n) \o <<x>> \o SubSeq(s, n + 1, Len(s))

\* sorted(): a stable sort, an element goes behind every element whose key
\* is not larger. The sorted head of the list is bound once, as a value,
\* before the last element is inserted.
InsertByKey(s, x, key) ==
    LET n == Cardinality({i \in 1..Len(s) : key[s[i]] <= key[x]})
    IN  SubSeq(s, 1, n) \o <<x>> \o SubSeq(s, n + 1, Len(s))

RECURSIVE sorted(_, _)
sorted(s, key) ==
    IF s = <<>> THEN <<>>
    ELSE CHOOSE r \in {InsertByKey(head, s[Len(s)], key) :
                          head \in {sorted(SubSeq(s, 1, Len(s) - 1), key)}} : TRUE

JobSeqIds(js) == [i \in 1..Len(js) |-> js[i].id]

apply_SPT_rule(js, pt) ==
    sorted(JobSeqIds(js),
           [j \in 1..Len(js) |-> calculate_total_processing_time(js[j].type, pt)])

Reverse(s) == [i \in 1..Len(s) |-> s[Len(s) + 1 - i]]

\* Variants of the LPT order with a slip: the SPT order turned around, and
\* the key not negated.
apply_LPT_rule_Reversed(js, pt) == Reverse(apply_SPT_rule(js, pt))
apply_LPT_rule_Ascending(js, pt) == apply_SPT_rule(js, pt)

apply_LPT_rule(js, pt) ==
    sorted(JobSeqIds(js),
           [j \in 1..Len(js) |-> 0 - calculate_total_processing_time(js[j].type, pt)])

\* Variant with a slip: the first stage is listed a second time.
operations_order_Repeated ==
    sorted(operations \o <<operations[1]>>, [o \in OperationIds |-> o])

\* sorted(operations, key = operation_id)
operations_order == sorted(operations, [o \in OperationIds |-> o])

(* ------------------------- machine selection --------------------------- *)
\* Variant with a slip: the eligibility test left out.
get_available_machines_for_job_Unfiltered(job_type, op) == OperationMachines(op)

\* Variant with a slip: every machine is tested against the eligibility set
\* of the first machine of the stage.
get_available_machines_for_job_FirstSet(job_type, op) ==
    SelectSeq(OperationMachines(op),
              LAMBDA m : job_type \in allowed_machines[op][1])

get_available_machines_for_job(job_type, op) ==
    SelectSeq(OperationMachines(op),
              LAMBDA m : job_type \in allowed_machines[op][m])

\* Variant with a slip: a later machine replaces the selected one already
\* when its possible start is not later.
RECURSIVE FindMinLoop_LastWins(_, _, _, _, _)
FindMinLoop_LastWins(available, i, cum, prev_operation_end, sel) ==
    IF i > Len(available) THEN sel
    ELSE LET m == available[i]
             possible_start_time == Max(cum[m], prev_operation_end)
         IN  FindMinLoop_LastWins(available, i + 1, cum, prev_operation_end,
                IF sel.machine = None \/ possible_start_time <= sel.time
                THEN [machine |-> m, time |-> possible_start_time]
                ELSE sel)

\* The loop of find_machine_with_min_time: a later machine replaces the
\* selected one only when its possible start is strictly earlier.
RECURSIVE FindMinLoop(_, _, _, _, _)
FindMinLoop(available, i, cum, prev_operation_end, sel) ==
    IF i > Len(available) THEN sel
    ELSE LET m == available[i]
             possible_start_time == Max(cum[m], prev_operation_end)
         IN  FindMinLoop(available, i + 1, cum, prev_operation_end,
                IF sel.machine = None \/ possible_start_time < sel.time
                THEN [machine |-> m, time |-> possible_start_time]
                ELSE sel)

find_machine_with_min_time(available, cum, prev_operation_end) ==
    FindMinLoop(available, 1, cum, prev_operation_end,
                [machine |-> None, time |-> 0])

(* --------------------------- assignment -------------------------------- *)
Last(s) == s[Len(s)]

\* setup_duration: owed only when the selected machine already holds a job.
SetupDuration(mjobs, job_type) ==
    IF mjobs # <<>> THEN setup_time[JobType(Last(mjobs))][job_type] ELSE 0

\* Variants of the start time with a slip: the end of the job's previous
\* stage dropped, the setup dropped.
StartTime_NoPrecedence(cum, setup_duration, prev_operation_end) ==
    cum + setup_duration
StartTime_NoSetup(cum, setup_duration, prev_operation_end) ==
    Max(cum, prev_operation_end)
\* Variant with a slip: the machine's cumulative time dropped.
StartTime_MachineIgnored(cum, setup_duration, prev_operation_end) ==
    Max(setup_duration, prev_operation_end)

\* start_time = max(cumulative_time + setup_duration, prev_operation_end)
StartTime(cum, setup_duration, prev_operation_end) ==
    Max(cum + setup_duration, prev_operation_end)

\* Variant with a slip: the first entry of the list for every job type.
JobProcessingTime_FirstEntry(machine_times, job_type) == machine_times[1]

\* The duration of the job on the selected machine.
JobProcessingTime(machine_times, job_type) ==
    IF Len(machine_times) = 1 THEN machine_times[1]
    ELSE IF job_type = "A" THEN machine_times[1] ELSE machine_times[2]

\* Variant with a slip: the duration is not added.
EndTime_NoDuration(start_time, job_processing_time) == start_time

EndTime(start_time, job_processing_time) == start_time + job_processing_time

\* The (job, stage) pair the two loops of schedule_all_jobs stand at.
CurJob == sorted_jobs[job_idx]
CurOp == operations_order[op_idx]

\* setup_time[prev_job_type][job.type] and
\* processing_time[operation_id][machine_id] raise KeyError on a missing key.
SetupKeyPresent(op, m, job_type) ==
    IF machine_jobs[op][m] = <<>> THEN TRUE
    ELSE LET prev_job_type == JobType(Last(machine_jobs[op][m]))
         IN  /\ prev_job_type \in DOMAIN setup_time
             /\ job_type \in DOMAIN setup_time[prev_job_type]
TimeKeyPresent(op, m) ==
    /\ op \in DOMAIN processing_time
    /\ m \in DOMAIN processing_time[op]

\* Variant with a slip: the loops nested the other way round, every job
\* through one stage before the next stage is begun.
LoopNext_StageByStage(new_prev_end) ==
    IF job_idx < Len(sorted_jobs)
    THEN /\ job_idx' = job_idx + 1
         /\ op_idx' = op_idx
         /\ prev_end_time' = 0
         /\ pc' = "loop"
    ELSE /\ job_idx' = IF op_idx < Len(operations_order) THEN 1 ELSE job_idx + 1
         /\ op_idx' = IF op_idx < Len(operations_order) THEN op_idx + 1 ELSE 1
         /\ prev_end_time' = 0
         /\ pc' = IF op_idx < Len(operations_order) THEN "loop" ELSE "done"

\* Variant with a slip: prev_end_time is reset before every stage.
LoopNext_ForgetsEnd(new_prev_end) ==
    IF op_idx < Len(operations_order)
    THEN /\ op_idx' = op_idx + 1
         /\ job_idx' = job_idx
         /\ prev_end_time' = 0
         /\ pc' = "loop"
    ELSE /\ op_idx' = 1
         /\ job_idx' = job_idx + 1
         /\ prev_end_time' = 0
         /\ pc' = IF job_idx < Len(sorted_jobs) THEN "loop" ELSE "done"

\* The two for loops: the next stage of the same job, else the first stage
\* of the next job with prev_end_time = 0, else the run is over.
LoopNext(new_prev_end) ==
    IF op_idx < Len(operations_order)
    THEN /\ op_idx' = op_idx + 1
         /\ job_idx' = job_idx
         /\ prev_end_time' = new_prev_end
         /\ pc' = "loop"
    ELSE /\ op_idx' = 1
         /\ job_idx' = job_idx + 1
         /\ prev_end_time' = 0
         /\ pc' = IF job_idx < Len(sorted_jobs) THEN "loop" ELSE "done"

(* ------------------------------ actions -------------------------------- *)
\* schedule_all_jobs up to the loops: the dispatch order for a known rule.
ApplyRule ==
    /\ pc = "start"
    /\ rule \in Rules
    /\ sorted_jobs' = IF rule = "SPT" THEN apply_SPT_rule(jobs, processing_time)
                      ELSE apply_LPT_rule(jobs, processing_time)
    /\ job_idx' = 1
    /\ op_idx' = 1
    /\ prev_end_time' = 0
    /\ pc' = IF jobs = <<>> THEN "done" ELSE "loop"
    /\ UNCHANGED <<cfgvars, machine_jobs, cumulative_time, operation_times, error,
                   prior_makespan>>

\* Variant with a slip: the rule is checked after the jobs were ordered.
RaiseValueError_AfterOrdering ==
    /\ pc = "start"
    /\ rule \notin Rules
    /\ pc' = "error"
    /\ error' = "ValueError"
    /\ sorted_jobs' = apply_SPT_rule(jobs, processing_time)
    /\ UNCHANGED <<cfgvars, machine_jobs, cumulative_time,
                   operation_times, job_idx, op_idx, prev_end_time,
                   prior_makespan>>

\* schedule_all_jobs with an unknown rule: ValueError before anything else.
RaiseValueError ==
    /\ pc = "start"
    /\ rule \notin Rules
    /\ pc' = "error"
    /\ error' = "ValueError"
    /\ UNCHANGED <<cfgvars, sorted_jobs, machine_jobs, cumulative_time,
                   operation_times, job_idx, op_idx, prev_end_time,
                   prior_makespan>>

\* Variant with a slip: the cumulative time is kept per stage, every machine
\* of the stage is moved to the end of the job.
AssignStep_SharedClock ==
    /\ pc = "loop"
    /\ LET job == CurJob
           op == CurOp
           available == get_available_machines_for_job(JobType(job), op)
           m == find_machine_with_min_time(available, cumulative_time[op],
                                           prev_end_time).machine
           setup_duration == SetupDuration(machine_jobs[op][m], JobType(job))
           start_time == StartTime(cumulative_time[op][m], setup_duration, prev_end_time)
           job_processing_time ==
               JobProcessingTime(processing_time[op][m], JobType(job))
           end_time == EndTime(start_time, job_processing_time)
       IN  /\ available # <<>>
           /\ SetupKeyPresent(op, m, JobType(job))
           /\ TimeKeyPresent(op, m)
           /\ machine_jobs' =
                 [machine_jobs EXCEPT ![op][m] = Append(@, job)]
           /\ cumulative_time' =
                 [cumulative_time EXCEPT ![op] = [x \in MachineIds |-> end_time]]
           /\ operation_times' =
                 [operation_times EXCEPT ![job] =
                     [o \in (DOMAIN @) \cup {op} |->
                         IF o = op
                         THEN [start |-> start_time, end |-> end_time,
                               setup_time |-> setup_duration]
                         ELSE @[o]]]
           /\ LoopNext(end_time)
    /\ UNCHANGED <<cfgvars, sorted_jobs, error, prior_makespan>>

\* assign_job_to_machine finds a machine and writes the timing record.
AssignStep ==
    /\ pc = "loop"
    /\ LET job == CurJob
           op == CurOp
           available == get_available_machines_for_job(JobType(job), op)
           m == find_machine_with_min_time(available, cumulative_time[op],
                                           prev_end_time).machine
           setup_duration == SetupDuration(machine_jobs[op][m], JobType(job))
           start_time == StartTime(cumulative_time[op][m], setup_duration, prev_end_time)
           job_processing_time ==
               JobProcessingTime(processing_time[op][m], JobType(job))
           end_time == EndTime(start_time, job_processing_time)
       IN  /\ available # <<>>
           /\ SetupKeyPresent(op, m, JobType(job))
           /\ TimeKeyPresent(op, m)
           /\ machine_jobs' =
                 [machine_jobs EXCEPT ![op][m] = Append(@, job)]
           /\ cumulative_time' = [cumulative_time EXCEPT ![op][m] = end_time]
           /\ operation_times' =
                 [operation_times EXCEPT ![job] =
                     [o \in (DOMAIN @) \cup {op} |->
                         IF o = op
                         THEN [start |-> start_time, end |-> end_time,
                               setup_time |-> setup_duration]
                         ELSE @[o]]]
           /\ LoopNext(end_time)
    /\ UNCHANGED <<cfgvars, sorted_jobs, error, prior_makespan>>

\* Variant with a slip: a failed stage resets the earliest permitted start.
UnscheduledStep_ResetsStart ==
    /\ pc = "loop"
    /\ get_available_machines_for_job(JobType(CurJob), CurOp) = <<>>
    /\ LoopNext(0)
    /\ UNCHANGED <<cfgvars, sorted_jobs, machine_jobs, cumulative_time,
                   operation_times, error,
                   prior_makespan>>

\* Variant with a slip: a stage without an eligible machine is tried again.
UnscheduledStep_Retries ==
    /\ pc = "loop"
    /\ get_available_machines_for_job(JobType(CurJob), CurOp) = <<>>
    /\ UNCHANGED vars

\* assign_job_to_machine returns None: no machine of the stage is eligible.
UnscheduledStep ==
    /\ pc = "loop"
    /\ get_available_machines_for_job(JobType(CurJob), CurOp) = <<>>
    /\ LoopNext(prev_end_time)
    /\ UNCHANGED <<cfgvars, sorted_jobs, machine_jobs, cumulative_time,
                   operation_times, error,
                   prior_makespan>>

\* A table lookup of assign_job_to_machine fails: the KeyError leaves
\* schedule_all_jobs in the middle of its loops.
RaiseKeyError ==
    /\ pc = "loop"
    /\ LET job == CurJob
           op == CurOp
           available == get_available_machines_for_job(JobType(job), op)
           m == find_machine_with_min_time(available, cumulative_time[op],
                                           prev_end_time).machine
       IN  /\ available # <<>>
           /\ ~(SetupKeyPresent(op, m, JobType(job)) /\ TimeKeyPresent(op, m))
    /\ pc' = "error"
    /\ error' = "KeyError"
    /\ UNCHANGED <<cfgvars, sorted_jobs, machine_jobs, cumulative_time,
                   operation_times, job_idx, op_idx, prev_end_time,
                   prior_makespan>>

(* ------------------------------- inputs -------------------------------- *)
\* The duration of each job type (one type short, the other long), and the
\* machines built from it as in the data of the repository: a machine for
\* one type carries a one-element time list, a machine for both types a
\* list with one duration per type.
DurationChoices ==
    { [t \in Types |-> IF t = short THEN 1 ELSE MaxDur] : short \in Types }
MachineKind(dur, accepts) ==
    [allowed |-> accepts,
     times |-> IF accepts = Types THEN <<dur["A"], dur["B"]>>
               ELSE IF accepts = {"A"} THEN <<dur["A"]>>
               ELSE <<dur["B"]>>]
\* The layouts of a stage, as the types accepted by its first machine and by
\* every other machine: all machines flexible, the first machine dedicated
\* to A, one dedicated machine per type, and a stage that only takes A.
StageLayouts ==
    { <<Types, Types>>, <<{"A"}, Types>>, <<{"A"}, {"B"}>>, <<{"A"}, {"A"}>> }
ShopChoices(dur) ==
    { [op \in OperationIds |-> [m \in MachineIds |->
          MachineKind(dur, IF m = 1 THEN lay[op][1] ELSE lay[op][2])]] :
      lay \in [OperationIds -> StageLayouts] }
SetupTable(ab, ba) ==
    [p \in Types |-> [n \in Types |->
        IF p = n THEN 0 ELSE IF p = "A" THEN ab ELSE ba]]
SetupChoices == {SetupTable(s, s) : s \in {0, MaxSetup}}

\* The state after create_operations and create_job_list.
Constructed ==
    /\ jobs = create_job_list(demand, 1, <<>>)
    /\ sorted_jobs = <<>>
    /\ machine_jobs = [op \in OperationIds |-> [m \in MachineIds |-> <<>>]]
    /\ cumulative_time = [op \in OperationIds |-> [m \in MachineIds |-> 0]]
    /\ operation_times = [j \in 1..Len(jobs) |-> <<>>]
    /\ pc = "start"
    /\ job_idx = 0
    /\ op_idx = 0
    /\ prev_end_time = 0
    /\ error = "none"

Shop(dur) ==
    \E shop \in ShopChoices(dur) :
        /\ allowed_machines =
              [op \in OperationIds |-> [m \in MachineIds |-> shop[op][m].allowed]]
        /\ processing_time =
              [op \in OperationIds |-> [m \in MachineIds |-> shop[op][m].times]]

\* Complete tables, any rule name.
Init ==
    /\ demand \in [Types -> 0..MaxDemand]
    /\ \E dur \in DurationChoices : Shop(dur)
    /\ setup_time \in SetupChoices
    /\ rule \in Rules \cup BadRules
    /\ prior_makespan = NoRun
    /\ Constructed

Next == ApplyRule \/ RaiseValueError \/ AssignStep \/ UnscheduledStep

Spec == Init /\ [][Next]_vars

\* Tables that lack an entry: one key of a row of the setup table, or the
\* time list of one machine of the processing-time table.
DropSetupKey(table, p, n) ==
    [x \in Types |->
        IF x = p THEN [y \in Types \ {n} |-> table[x][y]] ELSE table[x]]
DropTimeKey(pt, op, m) ==
    [o \in OperationIds |->
        IF o = op THEN [x \in MachineIds \ {m} |-> pt[o][x]] ELSE pt[o]]

\* A known rule and a shop whose later stages accept every type, with one
\* entry missing from the setup table or from the processing-time table.
InitTables ==
    /\ demand \in [Types -> 0..MaxDemand]
    /\ rule \in Rules
    /\ \E dur \in DurationChoices : \E shop \in ShopChoices(dur) :
          /\ \A op \in OperationIds \ {1} : \A m \in MachineIds :
                shop[op][m].allowed = Types
          /\ allowed_machines =
                [op \in OperationIds |-> [m \in MachineIds |-> shop[op][m].allowed]]
          /\ LET full ==
                   [op \in OperationIds |-> [m \in MachineIds |-> shop[op][m].times]]
             IN  \/ /\ processing_time = full
                    /\ \E p \in Types : \E n \in Types :
                          setup_time =
                              DropSetupKey(SetupTable(MaxSetup, MaxSetup), p, n)
                 \/ /\ setup_time = SetupTable(MaxSetup, MaxSetup)
                    /\ \E op \in OperationIds : \E m \in MachineIds :
                          processing_time = DropTimeKey(full, op, m)
    /\ prior_makespan = NoRun
    /\ Constructed

NextTables == ApplyRule \/ AssignStep \/ UnscheduledStep \/ RaiseKeyError

SpecTables == InitTables /\ [][NextTables]_vars

\* makespan = max(machine.cumulative_time for operation ... for machine ...)
makespan ==
    LET times == {cumulative_time[op][m] : op \in OperationIds, m \in MachineIds}
    IN  CHOOSE x \in times : \A y \in times : y <= x

\* The driver makes a further run on the same tables and rule with fresh
\* operations and a fresh catalog, here for a demand with one more job of
\* one type; the makespan of the finished run is kept for comparison.
Rerun ==
    /\ pc = "done"
    /\ prior_makespan = NoRun
    /\ \E t \in Types :
          /\ demand[t] < MaxDemand
          /\ demand' = [demand EXCEPT ![t] = @ + 1]
    /\ prior_makespan' = makespan
    /\ jobs' = create_job_list(demand', 1, <<>>)
    /\ sorted_jobs' = <<>>
    /\ machine_jobs' = [op \in OperationIds |-> [m \in MachineIds |-> <<>>]]
    /\ cumulative_time' = [op \in OperationIds |-> [m \in MachineIds |-> 0]]
    /\ operation_times' = [j \in 1..Len(jobs') |-> <<>>]
    /\ pc' = "start"
    /\ job_idx' = 0
    /\ op_idx' = 0
    /\ prev_end_time' = 0
    /\ error' = "none"
    /\ UNCHANGED <<allowed_machines, processing_time, setup_time, rule>>

\* Complete tables and a known rule.
InitDemand ==
    /\ demand \in [Types -> 0..MaxDemand]
    /\ \E dur \in DurationChoices : Shop(dur)
    /\ setup_time \in SetupChoices
    /\ rule \in Rules
    /\ prior_makespan = NoRun
    /\ Constructed

NextDemand == ApplyRule \/ AssignStep \/ UnscheduledStep \/ Rerun

SpecDemand == InitDemand /\ [][NextDemand]_vars

\* One call of schedule_all_jobs with a known rule and complete tables: a
\* sequential program, which takes its next step as long as it has one.
NextRun == ApplyRule \/ AssignStep \/ UnscheduledStep

\* The shops whose stages after the first share one layout.
InitRun ==
    /\ InitDemand
    /\ \A op \in OperationIds \ {1} :
          allowed_machines[op] = allowed_machines[NumOps]

SpecRun == InitRun /\ [][NextRun]_vars /\ WF_vars(NextRun)

(* ===================== properties of the scheduling run ================ *)
HasRecord(j, op) == op \in DOMAIN operation_times[j]
Rec(j, op) == operation_times[j][op]
StagePositions == 1..Len(operations_order)
Stage(k) == operations_order[k]

\* C1: after schedule_all_jobs finishes, for every job and every two
\* consecutive stages k, k+1 at which the job has a timing record, the end
\* at stage k is at most the start at stage k+1.
C1_Precedence ==
    pc = "done" =>
        \A j \in JobIds : \A k \in StagePositions :
            (k + 1 \in StagePositions /\ HasRecord(j, Stage(k))
                /\ HasRecord(j, Stage(k + 1)))
            => Rec(j, Stage(k)).end <= Rec(j, Stage(k + 1)).start

\* A finished run in which a job is the first on its machine at stage k+1
\* and still waits there for its own stage k to end.
C1_Witness ==
    /\ pc = "done"
    /\ \E j \in JobIds : \E k \in StagePositions : \E m \in MachineIds :
          /\ k + 1 \in StagePositions
          /\ HasRecord(j, Stage(k))
          /\ HasRecord(j, Stage(k + 1))
          /\ machine_jobs[Stage(k + 1)][m] # <<>>
          /\ machine_jobs[Stage(k + 1)][m][1] = j
          /\ Rec(j, Stage(k)).end > 0
          /\ Rec(j, Stage(k + 1)).start = Rec(j, Stage(k)).end

\* C2: in every reachable state, two consecutive jobs j1, j2 of a machine's
\* job list satisfy start(j2) >= end(j1) + setup_time[type(j1)][type(j2)]
\* at the machine's stage, and the first job of the list has setup 0.
C2_MachineSequencing ==
    \A op \in OperationIds : \A m \in MachineIds :
        LET js == machine_jobs[op][m]
        IN  /\ js # <<>> => Rec(js[1], op).setup_time = 0
            /\ \A i \in 1..(Len(js) - 1) :
                  Rec(js[i + 1], op).start >=
                      Rec(js[i], op).end
                      + setup_time[JobType(js[i])][JobType(js[i + 1])]

\* A machine on which a job of another type follows at once: the gap between
\* the two is exactly the positive setup owed.
C2_Witness ==
    \E op \in OperationIds : \E m \in MachineIds :
        LET js == machine_jobs[op][m]
        IN  /\ Len(js) >= 2
            /\ JobType(js[1]) # JobType(js[2])
            /\ setup_time[JobType(js[1])][JobType(js[2])] > 0
            /\ Rec(js[2], op).start =
                   Rec(js[1], op).end + setup_time[JobType(js[1])][JobType(js[2])]

\* The machines of a stage that accept a job type, and the start a machine
\* could give a job: its cumulative time plus the setup owed for the switch
\* from its last job (0 on an empty machine), not before the earliest
\* permitted start.
EligibleMachines(op, job_type) ==
    {m \in MachineIds : job_type \in allowed_machines[op][m]}
SetupOwed(op, m, job_type) ==
    IF machine_jobs[op][m] = <<>> THEN 0
    ELSE setup_time[JobType(Last(machine_jobs[op][m]))][job_type]
CandidateStart(op, m, job_type, earliest_permitted_start) ==
    Max(cumulative_time[op][m] + SetupOwed(op, m, job_type),
        earliest_permitted_start)
\* The machine of stage op that gains a job in this step.
Gains(op, m) == machine_jobs'[op][m] # machine_jobs[op][m]

\* C3: the machine chosen for a (job, stage) is the eligible machine with
\* the minimal candidate start (setup owed included), the first declared
\* one among those that share the minimum.
C3_ChoosesMinCandidateStart ==
    [][\A op \in OperationIds : \A m \in MachineIds :
          Gains(op, m) =>
              LET t == JobType(CurJob)
                  c == CandidateStart(op, m, t, prev_end_time)
              IN  /\ m \in EligibleMachines(op, t)
                  /\ \A x \in EligibleMachines(op, t) :
                        /\ c <= CandidateStart(op, x, t, prev_end_time)
                        /\ x < m => c < CandidateStart(op, x, t, prev_end_time)
      ]_vars

\* The duration of a job type on a machine of a stage, read from the table.
TableDuration(op, m, job_type) ==
    LET times == processing_time[op][m]
    IN  IF Len(times) = 1 THEN times[1]
        ELSE times[IF job_type = "A" THEN 1 ELSE 2]

\* C4: a step that writes the timing record of job j at stage op charges
\* the setup from the last job of the chosen machine (0 on an empty one),
\* starts at max(cumulative time before + setup, earliest permitted start),
\* ends after the table's duration, leaves the machine's cumulative time at
\* that end and the job last in the machine's list.
C4_TimingRecord ==
    [][\A j \in JobIds : \A op \in OperationIds :
          (~HasRecord(j, op) /\ op \in DOMAIN operation_times'[j]) =>
              \E m \in MachineIds :
                  LET r == operation_times'[j][op]
                      su == SetupOwed(op, m, JobType(j))
                  IN  /\ Gains(op, m)
                      /\ r.setup_time = su
                      /\ r.start = Max(cumulative_time[op][m] + su, prev_end_time)
                      /\ r.end = r.start + TableDuration(op, m, JobType(j))
                      /\ cumulative_time'[op][m] = r.end
                      /\ machine_jobs'[op][m] = Append(machine_jobs[op][m], j)
      ]_vars

\* A job just written behind a job of another type: a positive setup is
\* charged, and the machine is busy until the end of the new record.
C4_Witness ==
    \E op \in OperationIds : \E m \in MachineIds :
        LET js == machine_jobs[op][m]
        IN  /\ Len(js) >= 2
            /\ Rec(Last(js), op).setup_time > 0
            /\ Rec(Last(js), op).start > Rec(js[Len(js) - 1], op).end
            /\ Rec(Last(js), op).end =
                   Rec(Last(js), op).start + TableDuration(op, m, JobType(Last(js)))
            /\ cumulative_time[op][m] = Rec(Last(js), op).end

\* C5: a (job, stage) pair without an eligible machine does not abort the
\* run: the attempt changes no machine and no timing record and the loops go
\* on, and when the run is over a job has a timing record at a stage exactly
\* when the stage has a machine eligible for its type.
C5_UnscheduledIsIsolated ==
    [][/\ (pc = "loop" /\ EligibleMachines(CurOp, JobType(CurJob)) = {}) =>
            /\ machine_jobs' = machine_jobs
            /\ cumulative_time' = cumulative_time
            /\ operation_times' = operation_times
            /\ pc' \in {"loop", "done"}
            /\ error' = "none"
       /\ pc' = "done" =>
            \A j \in JobIds : \A op \in OperationIds :
                (op \in DOMAIN operation_times'[j])
                    <=> (EligibleMachines(op, JobType(j)) # {})
      ]_vars

\* A finished run in which one job has no eligible machine at a stage and
\* no record there, while it holds records at its other stages and another
\* job holds a record at that very stage.
C5_Witness ==
    /\ pc = "done"
    /\ \E j \in JobIds : \E op \in OperationIds :
          /\ EligibleMachines(op, JobType(j)) = {}
          /\ ~HasRecord(j, op)
          /\ \E o2 \in OperationIds : HasRecord(j, o2)
          /\ \E j2 \in JobIds : HasRecord(j2, op)

\* The end of the latest stage before position k at which job j holds a
\* timing record, 0 when it holds none.
LatestEndBefore(j, k) ==
    LET done == {i \in 1..(k - 1) : HasRecord(j, Stage(i))}
    IN  IF done = {} THEN 0
        ELSE Rec(j, Stage(CHOOSE i \in done : \A x \in done : x <= i)).end

NoMachineHere ==
    /\ pc = "loop"
    /\ EligibleMachines(CurOp, JobType(CurJob)) = {}
    /\ op_idx < Len(operations_order)

\* C6 as stated: after a stage without an eligible machine the next stage of
\* the job is attempted with earliest permitted start 0.
C6_NextStageStartsAtZero ==
    [][NoMachineHere =>
          /\ pc' = "loop"
          /\ job_idx' = job_idx
          /\ op_idx' = op_idx + 1
          /\ prev_end_time' = 0
      ]_vars

\* C6 as amended: after a stage without an eligible machine the next stage
\* of the job is attempted with, as earliest permitted start, the end of the
\* latest earlier stage at which the job was scheduled (0 if there is none).
C6_NextStageKeepsLastEnd ==
    [][NoMachineHere =>
          /\ pc' = "loop"
          /\ job_idx' = job_idx
          /\ op_idx' = op_idx + 1
          /\ prev_end_time' = LatestEndBefore(CurJob, op_idx)
      ]_vars

\* A job about to be attempted at a stage whose predecessor had no eligible
\* machine for it, with a positive earliest permitted start kept from a
\* stage before that.
C6_Witness ==
    /\ pc = "loop"
    /\ op_idx >= 3
    /\ EligibleMachines(Stage(op_idx - 1), JobType(CurJob)) = {}
    /\ ~HasRecord(CurJob, Stage(op_idx - 1))
    /\ HasRecord(CurJob, Stage(op_idx - 2))
    /\ prev_end_time > 0
    /\ prev_end_time = Rec(CurJob, Stage(op_idx - 2)).end

\* C7: a rule other than SPT and LPT ends schedule_all_jobs with an error,
\* with no dispatch order produced and no machine and no timing record
\* touched.
C7_InvalidRuleFails ==
    [][rule \notin Rules =>
          /\ pc = "start"
          /\ pc' = "error"
          /\ error' = "ValueError"
          /\ sorted_jobs' = <<>>
          /\ \A op \in OperationIds : \A m \in MachineIds :
                machine_jobs'[op][m] = <<>> /\ cumulative_time'[op][m] = 0
          /\ \A j \in JobIds : DOMAIN operation_times'[j] = {}
      ]_vars

\* The run of a non-empty catalog ended by the ValueError.
C7_Witness ==
    /\ pc = "error"
    /\ error = "ValueError"
    /\ rule \notin Rules
    /\ Len(jobs) >= 2

\* C8: when a needed entry of the setup table or of the processing-time
\* table is missing, the run fails before any scheduling: at the error no
\* machine holds a job and no job has a timing record.
C8_FailsBeforeScheduling ==
    error = "KeyError" =>
        /\ \A op \in OperationIds : \A m \in MachineIds : machine_jobs[op][m] = <<>>
        /\ \A j \in JobIds : DOMAIN operation_times[j] = {}

(* ======================= properties of the dispatch order ============== *)
\* The sum over the stages of the shortest duration of a job type among the
\* machines of the stage that are eligible for it.
RECURSIVE EligibleMinSum(_, _)
EligibleMinSum(job_type, k) ==
    IF k = 0 THEN 0
    ELSE SetMin({TableDuration(Stage(k), m, job_type) :
                    m \in EligibleMachines(Stage(k), job_type)})
         + EligibleMinSum(job_type, k - 1)
EligibleEverywhere(job_type) ==
    \A op \in OperationIds : EligibleMachines(op, job_type) # {}
Ordered == pc \in {"loop", "done"}
\* The key schedule_all_jobs sorts a job by.
DispatchKey(j) == calculate_total_processing_time(JobType(j), processing_time)
TypeKey == [t \in Types |-> calculate_total_processing_time(t, processing_time)]

\* C9: the total processing time used as dispatch key of a job is the sum
\* over all stages of the minimum duration of its type among the eligible
\* machines of the stage.
C9_KeyIsEligibleMinSum ==
    Ordered =>
        \A j \in JobIds :
            EligibleEverywhere(JobType(j))
            => DispatchKey(j) = EligibleMinSum(JobType(j), Len(operations_order))

\* C10: under SPT the dispatch order is a permutation of the catalog in
\* ascending order of total processing time, and jobs of equal total keep
\* their catalog order.
C10_SPTOrder ==
    (Ordered /\ rule = "SPT") =>
        /\ Len(sorted_jobs) = Len(jobs)
        /\ {sorted_jobs[i] : i \in 1..Len(sorted_jobs)} = {jobs[i].id : i \in 1..Len(jobs)}
        /\ \E total \in {[j \in JobIds |-> byType[JobType(j)]] : byType \in {TypeKey}} :
              \A i \in 1..Len(sorted_jobs) : \A k \in 1..Len(sorted_jobs) :
                  i < k =>
                      /\ total[sorted_jobs[i]] <= total[sorted_jobs[k]]
                      /\ total[sorted_jobs[i]] = total[sorted_jobs[k]]
                            => sorted_jobs[i] < sorted_jobs[k]

\* An SPT order that moves a job of the later type to the front and keeps
\* two jobs of equal total in catalog order behind it.
C10_Witness ==
    /\ Ordered
    /\ rule = "SPT"
    /\ Len(sorted_jobs) >= 3
    /\ sorted_jobs[1] > sorted_jobs[2]
    /\ DispatchKey(sorted_jobs[1]) < DispatchKey(sorted_jobs[2])
    /\ DispatchKey(sorted_jobs[2]) = DispatchKey(sorted_jobs[3])
    /\ sorted_jobs[2] < sorted_jobs[3]

\* C11: under LPT the dispatch order is a permutation of the catalog in
\* descending order of total processing time, and jobs of equal total keep
\* their catalog order.
C11_LPTOrder ==
    (Ordered /\ rule = "LPT") =>
        /\ Len(sorted_jobs) = Len(jobs)
        /\ {sorted_jobs[i] : i \in 1..Len(sorted_jobs)} = {jobs[i].id : i \in 1..Len(jobs)}
        /\ \E total \in {[j \in JobIds |-> byType[JobType(j)]] : byType \in {TypeKey}} :
              \A i \in 1..Len(sorted_jobs) : \A k \in 1..Len(sorted_jobs) :
                  i < k =>
                      /\ total[sorted_jobs[i]] >= total[sorted_jobs[k]]
                      /\ total[sorted_jobs[i]] = total[sorted_jobs[k]]
                            => sorted_jobs[i] < sorted_jobs[k]

\* An LPT order that moves two jobs of the later type, equal in total and
\* in catalog order, in front of a job of the first type.
C11_Witness ==
    /\ Ordered
    /\ rule = "LPT"
    /\ Len(sorted_jobs) >= 3
    /\ DispatchKey(sorted_jobs[1]) = DispatchKey(sorted_jobs[2])
    /\ sorted_jobs[1] < sorted_jobs[2]
    /\ DispatchKey(sorted_jobs[2]) > DispatchKey(sorted_jobs[3])
    /\ sorted_jobs[2] > sorted_jobs[3]

\* No two jobs of the catalog have the same total processing time.
NoKeyTies ==
    \A i \in JobIds : \A k \in JobIds : i # k => DispatchKey(i) # DispatchKey(k)

\* C12: for a catalog without two jobs of equal total processing time, the
\* SPT dispatch order is the LPT dispatch order read backwards: the order
\* the run produced under one rule is the reverse of the order the other
\* rule gives for the same catalog and tables.
C12_RuleDuality ==
    (Ordered /\ NoKeyTies) =>
        /\ rule = "SPT" =>
              sorted_jobs = Reverse(apply_LPT_rule(jobs, processing_time))
        /\ rule = "LPT" =>
              sorted_jobs = Reverse(apply_SPT_rule(jobs, processing_time))

\* Two jobs of different totals ordered by SPT against their catalog order.
C12_Witness ==
    /\ Ordered
    /\ NoKeyTies
    /\ rule = "SPT"
    /\ Len(jobs) = 2
    /\ sorted_jobs = <<2, 1>>
    /\ apply_LPT_rule(jobs, processing_time) = <<1, 2>>

\* C13: when a run is followed by a run on the same process plan, setup
\* table and rule for a demand with one more job of one type, the makespan
\* of the second run is at least the makespan of the first.
C13_MakespanMonotone ==
    (pc = "done" /\ prior_makespan # NoRun) => makespan >= prior_makespan

(* ================= properties of the machines' job lists =============== *)
SeqElems(s) == {s[i] : i \in 1..Len(s)}

\* C14: in every reachable state every job of a machine's job list has a
\* type of the machine's eligibility set, and the candidates of a stage for
\* a job type are exactly the machines whose eligibility set holds the type.
C14_OnlyEligibleAssigned ==
    \A op \in OperationIds :
        /\ \A m \in MachineIds : \A j \in SeqElems(machine_jobs[op][m]) :
              JobType(j) \in allowed_machines[op][m]
        /\ \A t \in Types :
              SeqElems(get_available_machines_for_job(t, op))
                  = {m \in MachineIds : t \in allowed_machines[op][m]}

\* A stage with one dedicated machine per type: two A jobs share the A
\* machine while the B machine holds a B job.
C14_Witness ==
    \E op \in OperationIds : \E m1 \in MachineIds : \E m2 \in MachineIds :
        /\ allowed_machines[op][m1] = {"A"}
        /\ allowed_machines[op][m2] = {"B"}
        /\ Len(machine_jobs[op][m1]) >= 2
        /\ machine_jobs[op][m2] # <<>>

\* The job lists of the machines 1..m of stage op, one behind the other.
RECURSIVE StageJobs(_, _)
StageJobs(op, m) ==
    IF m = 0 THEN <<>> ELSE StageJobs(op, m - 1) \o machine_jobs[op][m]

\* C15: in every reachable state a job takes at most one place in the job
\* lists of a stage's machines, and takes one exactly when it has a timing
\* record for the stage; when the run is over it takes one at every stage
\* that has a machine eligible for its type.
C15_OneMachinePerStage ==
    \A op \in OperationIds :
        \E placed \in {StageJobs(op, NumMachines)} :
            \* no job fills two places of the stage
            /\ Len(placed) = Cardinality(SeqElems(placed))
            \* the jobs placed are the jobs with a record
            /\ SeqElems(placed) = {j \in JobIds : HasRecord(j, op)}
            /\ pc = "done" =>
                  \A j \in JobIds :
                      EligibleMachines(op, JobType(j)) # {} => j \in SeqElems(placed)

\* A finished run with a stage whose two machines both take the type of a
\* job that holds a place on one of them, the other machine in use as well.
C15_Witness ==
    /\ pc = "done"
    /\ \E j \in JobIds : \E op \in OperationIds :
          /\ \A m \in MachineIds : JobType(j) \in allowed_machines[op][m]
          /\ \A m \in MachineIds : machine_jobs[op][m] # <<>>
          /\ \E m \in MachineIds : j \in SeqElems(machine_jobs[op][m])
          /\ \A o2 \in OperationIds : HasRecord(j, o2)

\* All durations of the processing-time table are positive.
PositiveDurations ==
    \A op \in OperationIds : \A m \in MachineIds :
        \A i \in 1..Len(processing_time[op][m]) : processing_time[op][m][i] > 0

\* C16: in every reachable state a machine's cumulative time is the end, at
\* the machine's stage, of the last job of its job list (0 for an empty
\* list), and the ends along the list never decrease and grow strictly when
\* the durations are positive.
C16_CumulativeIsLastEnd ==
    \A op \in OperationIds : \A m \in MachineIds :
        LET js == machine_jobs[op][m]
        IN  /\ cumulative_time[op][m] =
                  IF js = <<>> THEN 0 ELSE Rec(Last(js), op).end
            /\ \A i \in 1..(Len(js) - 1) :
                  /\ Rec(js[i], op).end <= Rec(js[i + 1], op).end
                  /\ PositiveDurations
                        => Rec(js[i], op).end < Rec(js[i + 1], op).end

\* A stage with an unused machine next to a machine whose second job ends
\* later than its first and marks the machine's cumulative time.
C16_Witness ==
    \E op \in OperationIds : \E m \in MachineIds : \E m2 \in MachineIds :
        LET js == machine_jobs[op][m]
        IN  /\ Len(js) >= 2
            /\ Rec(js[1], op).end < Rec(js[2], op).end
            /\ cumulative_time[op][m] = Rec(Last(js), op).end
            /\ machine_jobs[op][m2] = <<>>
            /\ cumulative_time[op][m2] = 0

PositionOf(op) == CHOOSE k \in StagePositions : Stage(k) = op

\* C17: in every reachable state the starts, at the machine's stage, of the
\* jobs of a machine's job list never decrease along the list: a job is
\* never placed before a job assigned earlier.
C17_StartsInAppendOrder ==
    \A op \in OperationIds : \A m \in MachineIds :
        LET js == machine_jobs[op][m]
        IN  \A i \in 1..Len(js) : \A k \in 1..Len(js) :
                i < k => Rec(js[i], op).start <= Rec(js[k], op).start

\* A job appended behind a job of the same machine although it could enter
\* the stage earlier than that job did: it comes from no earlier stage,
\* the job before it started late.
C17_Witness ==
    \E op \in OperationIds : \E m \in MachineIds :
        LET js == machine_jobs[op][m]
        IN  /\ Len(js) >= 2
            /\ Rec(js[1], op).start > 0
            /\ LatestEndBefore(js[2], PositionOf(op)) < Rec(js[1], op).start
            /\ Rec(js[2], op).start >= Rec(js[1], op).end

(* ===================== properties of the two loops ===================== *)
\* The place of job j in the dispatch order.
DispatchPosition(j) == CHOOSE i \in 1..Len(sorted_jobs) : sorted_jobs[i] = j

\* The loops have been through the pair (j, op): the job was dispatched
\* before the current one, or is the current one and the stage lies before
\* the current stage.
Attempted(j, op) ==
    /\ Ordered
    /\ \/ DispatchPosition(j) < job_idx
       \/ DispatchPosition(j) = job_idx /\ PositionOf(op) < op_idx

\* C18: a job has no timing record for a stage before the step that
\* assigns it there (the attempt of that very pair, which appends the job
\* to a machine of the stage), and a record once written keeps its start,
\* end and setup in every later step of the run.
C18_RecordWrittenOnce ==
    /\ [](\A j \in JobIds : \A op \in OperationIds :
             HasRecord(j, op) => Attempted(j, op))
    /\ [][\A j \in JobIds : \A op \in OperationIds :
             /\ HasRecord(j, op) =>
                   /\ op \in DOMAIN operation_times'[j]
                   /\ operation_times'[j][op] = Rec(j, op)
             /\ (~HasRecord(j, op) /\ op \in DOMAIN operation_times'[j]) =>
                   /\ pc = "loop"
                   /\ j = CurJob
                   /\ op = CurOp
                   /\ \E m \in MachineIds :
                         machine_jobs'[op][m] = Append(machine_jobs[op][m], j)
       ]_vars

\* The run stands at the last stage of its last job, which was not assigned
\* at the stage before, while the first job dispatched holds records at all
\* stages.
C18_Witness ==
    /\ pc = "loop"
    /\ job_idx = Len(sorted_jobs)
    /\ job_idx >= 2
    /\ op_idx = Len(operations_order)
    /\ ~HasRecord(CurJob, Stage(op_idx - 1))
    /\ HasRecord(CurJob, Stage(1))
    /\ \A op \in OperationIds : HasRecord(sorted_jobs[1], op)

\* C19: jobs are dispatched one after the other in priority order, each
\* through all stages in increasing stage order before the first stage of
\* the next job: an attempt concerns the pair the loops stand at, is followed
\* by the next stage of the same job or, after the last stage, by the first
\* stage of the next job in the dispatch order, and so every machine's job
\* list is a subsequence of the dispatch order.
C19_JobByJob ==
    /\ [](/\ \A k \in StagePositions :
               k + 1 \in StagePositions => Stage(k) < Stage(k + 1)
          /\ \A op \in OperationIds : \A m \in MachineIds :
               LET js == machine_jobs[op][m]
               IN  \A i \in 1..Len(js) : \A k \in 1..Len(js) :
                       i < k => DispatchPosition(js[i]) < DispatchPosition(js[k]))
    /\ [][/\ pc = "start" /\ pc' = "loop" => job_idx' = 1 /\ op_idx' = 1
          /\ pc = "loop" =>
                /\ \A op \in OperationIds : \A m \in MachineIds :
                      Gains(op, m) =>
                          /\ op = CurOp
                          /\ machine_jobs'[op][m] = Append(machine_jobs[op][m], CurJob)
                /\ IF op_idx < Len(operations_order)
                   THEN pc' = "loop" /\ job_idx' = job_idx /\ op_idx' = op_idx + 1
                   ELSE /\ job_idx' = job_idx + 1
                        /\ op_idx' = 1
                        /\ pc' = IF job_idx < Len(sorted_jobs) THEN "loop" ELSE "done"
       ]_vars

\* A finished run whose dispatch order differs from the catalog order, with
\* a machine that holds the first and the last job dispatched but not a job
\* dispatched between them.
C19_Witness ==
    /\ pc = "done"
    /\ Len(sorted_jobs) >= 3
    /\ sorted_jobs[1] > sorted_jobs[Len(sorted_jobs)]
    /\ \E op \in OperationIds : \E m \in MachineIds :
          /\ machine_jobs[op][m] = <<sorted_jobs[1], sorted_jobs[Len(sorted_jobs)]>>
          /\ HasRecord(sorted_jobs[2], op)

\* C20: with a known rule and complete tables the run ends, and it ends
\* with every (job, stage) pair attempted exactly once: each step of the
\* loops attempts the pair it stands at and moves on to a later pair, the
\* dispatch order holds every job of the catalog once, the stage order every
\* stage once, and at the end the loops are past every pair.
C20_Terminates ==
    /\ <>(pc = "done")
    /\ [][pc = "loop" =>
             \/ job_idx' > job_idx
             \/ job_idx' = job_idx /\ op_idx' > op_idx]_vars
    /\ [](pc = "done" =>
             /\ Len(sorted_jobs) = Len(jobs)
             /\ SeqElems(sorted_jobs) = JobIds
             /\ Len(operations_order) = NumOps
             /\ SeqElems(operations_order) = OperationIds
             /\ \A j \in JobIds : \A op \in OperationIds : Attempted(j, op))

\* A run over at the end of its longest walk: every job of a full demand
\* was taken through every stage, some without an eligible machine there.
C20_Witness ==
    /\ pc = "done"
    /\ \A t \in Types : demand[t] = MaxDemand
    /\ job_idx = Len(jobs) + 1
    /\ \E j \in JobIds : \E op \in OperationIds : ~HasRecord(j, op)
    /\ \E j \in JobIds : \A op \in OperationIds : HasRecord(j, op)

(* =================== properties found in the code only ================= *)
\* The time the selection loop compares: the machine's cumulative time, not
\* before the end of the job's previous stage; no setup in it.
ReadyTime(op, m) == Max(cumulative_time[op][m], prev_end_time)

\* C21: the machine that gains the job at a stage is the first declared
\* eligible machine with the least max(cumulative time, end of the job's
\* previous stage), a criterion without the setup owed; the setup enters
\* only the start computed on the machine already chosen.
C21_SelectionIgnoresSetup ==
    [][\A op \in OperationIds : \A m \in MachineIds :
          Gains(op, m) =>
              /\ m \in EligibleMachines(op, JobType(CurJob))
              /\ \A x \in EligibleMachines(op, JobType(CurJob)) :
                    /\ ReadyTime(op, m) <= ReadyTime(op, x)
                    /\ x < m => ReadyTime(op, m) < ReadyTime(op, x)
              /\ operation_times'[CurJob][op].start =
                    Max(cumulative_time[op][m]
                            + SetupOwed(op, m, JobType(CurJob)),
                        prev_end_time)
      ]_vars

\* A job that paid a setup on the machine chosen for it and started later
\* than its previous stage ended, while a machine of the stage eligible for
\* it stood empty.
C21_Witness ==
    \E op \in OperationIds : \E m \in MachineIds : \E m2 \in MachineIds :
        LET js == machine_jobs[op][m]
        IN  /\ Len(js) >= 2
            /\ Rec(Last(js), op).setup_time > 0
            /\ Rec(Last(js), op).start
                   = Rec(js[Len(js) - 1], op).end + Rec(Last(js), op).setup_time
            /\ Rec(Last(js), op).start > LatestEndBefore(Last(js), PositionOf(op))
            /\ m2 \in EligibleMachines(op, JobType(Last(js)))
            /\ machine_jobs[op][m2] = <<>>

\* C22: in every reachable state, for every job and every two stages k < l
\* of the stage order at which the job has timing records, the end at k is
\* at most the start at l, whether or not the job has records at the stages
\* between them.
C22_PrecedenceAcrossGaps ==
    \A j \in JobIds : \A k \in StagePositions : \A l \in StagePositions :
        (k < l /\ HasRecord(j, Stage(k)) /\ HasRecord(j, Stage(l)))
            => Rec(j, Stage(k)).end <= Rec(j, Stage(l)).start

\* A job without a record at a stage between two stages where it has one;
\* at the later one it is the first job of its machine and starts exactly at
\* the end carried over the gap.
C22_Witness ==
    \E j \in JobIds : \E k \in StagePositions : \E m \in MachineIds :
        /\ k + 2 \in StagePositions
        /\ HasRecord(j, Stage(k))
        /\ ~HasRecord(j, Stage(k + 1))
        /\ HasRecord(j, Stage(k + 2))
        /\ machine_jobs[Stage(k + 2)][m] # <<>>
        /\ machine_jobs[Stage(k + 2)][m][1] = j
        /\ Rec(j, Stage(k)).end > 0
        /\ Rec(j, Stage(k + 2)).start = Rec(j, Stage(k)).end

\* The machines of the shop that differ between the two states of a step.
Touched ==
    {p \in OperationIds \X MachineIds :
        \/ machine_jobs'[p[1]][p[2]] # machine_jobs[p[1]][p[2]]
        \/ cumulative_time'[p[1]][p[2]] # cumulative_time[p[1]][p[2]]}

\* C23: an attempt of a (job, stage) pair changes at most one machine, a
\* machine of that stage, and the record of that job at that stage: every
\* other machine, the records of every other job and the records of the job
\* at its other stages stay as they are, as do the tables, the catalog and
\* the dispatch order; an attempt without an eligible machine changes none
\* of them.
C23_AssignFrame ==
    [][pc = "loop" =>
          /\ Cardinality(Touched) <= 1
          /\ \A p \in Touched : p[1] = CurOp
          /\ \A j \in JobIds \ {CurJob} : operation_times'[j] = operation_times[j]
          /\ DOMAIN operation_times'[CurJob] \ {CurOp}
                = DOMAIN operation_times[CurJob] \ {CurOp}
          /\ \A o \in DOMAIN operation_times[CurJob] \ {CurOp} :
                operation_times'[CurJob][o] = operation_times[CurJob][o]
          /\ UNCHANGED <<cfgvars, sorted_jobs>>
          /\ EligibleMachines(CurOp, JobType(CurJob)) = {} =>
                /\ Touched = {}
                /\ operation_times' = operation_times
      ]_vars

\* The run stands behind an assignment of its second or a later job: the
\* job is the last of a machine of the stage just left, another machine of
\* that stage holds jobs too, and the job has a record from a stage before.
C23_Witness ==
    /\ pc = "loop"
    /\ job_idx >= 2
    /\ op_idx >= 3
    /\ HasRecord(CurJob, Stage(op_idx - 2))
    /\ \E m \in MachineIds : \E m2 \in MachineIds :
          /\ m # m2
          /\ machine_jobs[Stage(op_idx - 1)][m] # <<>>
          /\ Last(machine_jobs[Stage(op_idx - 1)][m]) = CurJob
          /\ cumulative_time[Stage(op_idx - 1)][m] = prev_end_time
          /\ machine_jobs[Stage(op_idx - 1)][m2] # <<>>

====
